---------------------------- MODULE Spec2Model ----------------------------
(***************************************************************************)
(* A model of the teaching modules of Play_cpp that carry a contract:      *)
(*   - ShoppingCart (03_classes_basics/solution.cpp): a vector of items    *)
(*     mutated by chained addItem / removeItem calls, totalled on demand;  *)
(*   - DynamicArray (04_constructors_destructors/example.cpp), String and  *)
(*     FileHandler (04_constructors_destructors/solution.cpp): classes     *)
(*     that acquire a resource in the constructor and give it back in the  *)
(*     destructor.                                                         *)
(*   - IDGenerator (03_classes_basics/example.cpp) and GlobalCounter       *)
(*     (03_classes_basics/solution.cpp): a static counter stepped by the   *)
(*     constructor;                                                        *)
(*   - Calculator and findMax (01_references/solution.cpp), Student        *)
(*     (03_classes_basics/solution.cpp), power and sumUpTo                 *)
(*     (00_cpp_syntax/solution.cpp);                                       *)
(*   - BankAccount (03_classes_basics/example.cpp);                        *)
(*   - the shared_ptr, weak_ptr and unique_ptr functions of                *)
(*     10_smart_pointers/example.cpp and initCapture of                    *)
(*     12_lambda_expressions/example.cpp.                                  *)
(* Each component has its own specification: SpecCart for the cart;        *)
(* SpecCopy (DynamicArray and String), SpecRes (FileHandler as well),      *)
(* SpecFile, SpecAssign and SpecMisuse (callers that break the             *)
(* preconditions) for the resource classes; SpecCounter and SpecRace for   *)
(* the static counters; SpecCalc, SpecFindMax, SpecStudent and             *)
(* SpecConstexpr; SpecAccount; SpecShared and SpecUnique.  The programs    *)
(* share no state.                                                         *)
(***************************************************************************)
EXTENDS Integers, Sequences, FiniteSets, Bags, TLC

VARIABLES
    \* ---- ShoppingCart -------------------------------------------------
    carts,      \* the ShoppingCart objects by place: "cart" is main's
                \* variable, "temp" a temporary a by-value return would make
    present,    \* ghost: the bag of entries added and not removed since
    cartCall,   \* ghost: the last member call made on cart, its arguments
                \* and the number of items before it
    \* ---- DynamicArray / String / FileHandler ----------------------------
    objs,       \* the objects constructed so far, in construction order
    heap,       \* the free store and the open-file table, by address
    resCall,    \* ghost: the last operation, its operands and its outcome
    \* ---- IDGenerator / GlobalCounter -----------------------------------
    counters,   \* the static counters and the instances constructed so far
    threads,    \* the threads constructing IDGenerators side by side
    \* ---- Calculator ------------------------------------------------------
    calc,       \* the Calculator objects by place and the chain under way
    \* ---- findMax ---------------------------------------------------------
    fm,         \* main's x, y, z and the reference max
    \* ---- Student ---------------------------------------------------------
    student,    \* alice: her grades, and the addGrade calls made
    \* ---- power / sumUpTo -------------------------------------------------
    cx,         \* the last constant expression evaluated and its value
    \* ---- BankAccount -----------------------------------------------------
    account,    \* main's account: its balance and the last call made on it
    \* ---- shared_ptr / weak_ptr -------------------------------------------
    sp,         \* the shared and weak pointers of a function and the
                \* objects they manage
    \* ---- unique_ptr ------------------------------------------------------
    up          \* the unique pointers of a function and the objects they own

cartVars == <<carts, present, cartCall>>
resVars  == <<objs, heap, resCall>>
vars     == <<carts, present, cartCall, objs, heap, resCall,
              counters, threads, calc, fm, student, cx, account, sp, up>>

\* What each program leaves alone: the state of the other programs.
nonCartVars    == <<resVars, counters, threads, calc, fm, student, cx,
                    account, sp, up>>
nonResVars     == <<cartVars, counters, threads, calc, fm, student, cx,
                    account, sp, up>>
nonCounterVars == <<cartVars, resVars, calc, fm, student, cx,
                    account, sp, up>>
nonCalcVars    == <<cartVars, resVars, counters, threads, fm, student, cx,
                    account, sp, up>>
nonFmVars      == <<cartVars, resVars, counters, threads, calc, student, cx,
                    account, sp, up>>
nonStudentVars == <<cartVars, resVars, counters, threads, calc, fm, cx,
                    account, sp, up>>
nonAccountVars == <<cartVars, resVars, counters, threads, calc, fm, student,
                    cx, sp, up>>
nonSpVars      == <<cartVars, resVars, counters, threads, calc, fm, student,
                    cx, account, up>>
nonUpVars      == <<cartVars, resVars, counters, threads, calc, fm, student,
                    cx, account, sp>>
nonCxVars      == <<cartVars, resVars, counters, threads, calc, fm, student,
                    account, sp, up>>

(***************************************************************************)
(* ShoppingCart                                                            *)
(***************************************************************************)

\* Prices are doubles in the source.  They are counted here in quarters of a
\* dollar (6 = 1.50, 3 = 0.75, 5 = 1.25, -2 = -0.50): every such value and
\* every sum of a few of them is a dyadic rational a double holds exactly, so
\* the double additions of getTotal are exact integer additions in this unit.
Item(n, p) == [name |-> n, price |-> p]

\* The labels callers use; "banana" differs from "Banana" only in case.
Names == {"Apple", "Banana", "Orange", "banana"}

\* The (name, price) arguments callers pass to addItem: the three of main, a
\* label in another case, and a label already used with a negative price.
Catalogue ==
    { Item("Apple", 6), Item("Banana", 3), Item("Orange", 5),
      Item("banana", 3), Item("Banana", -2) }

\* The longest items vector explored.
MaxItems == 3

\* The longest chain of addItem calls in one statement (main chains three).
MaxChain == 3

\* ShoppingCart& addItem(name, price): push_back onto this->items and return
\* *this by reference: the returned place is the receiver's.
addItem_byValue(st, self, name, price) ==
    LET pushed == [st EXCEPT ![self] = Append(@, Item(name, price))]
    IN  [st |-> [pushed EXCEPT !["temp"] = pushed[self]], ret |-> "temp"]

addItem_rejectsNegative(st, self, name, price) ==
    [st  |-> IF price < 0 THEN st
             ELSE [st EXCEPT ![self] = Append(@, Item(name, price))],
     ret |-> self]

addItem(st, self, name, price) ==
    [st  |-> [st EXCEPT ![self] = Append(@, Item(name, price))],
     ret |-> self]

\* The predicate of removeItem's lambda: item.name == name, std::string's
\* operator==, an exact comparison of the characters.
nameMatches(item, name) == item.name = name

\* std::find_if(first, last, pred): the first position in [first, last) whose
\* element satisfies pred, or last.  Positions are 1-based; last is one past
\* the end.
RECURSIVE find_if(_, _, _, _)
find_if(v, first, last, name) ==
    IF first = last \/ nameMatches(v[first], name) THEN first
    ELSE find_if(v, first + 1, last, name)

\* The loop of std::remove_if after the first match: each later element that
\* does not satisfy pred is moved down to result.  Yields the vector and the
\* new logical end.
RECURSIVE remove_loop(_, _, _, _, _)
remove_loop(v, result, first, last, name) ==
    IF first = last THEN [v |-> v, end |-> result]
    ELSE IF ~nameMatches(v[first], name)
         THEN remove_loop([v EXCEPT ![result] = v[first]], result + 1,
                          first + 1, last, name)
         ELSE remove_loop(v, result, first + 1, last, name)

\* std::remove_if(items.begin(), items.end(), pred).
remove_if(v, name) ==
    LET last  == Len(v) + 1
        first == find_if(v, 1, last, name)
    IN  IF first = last THEN [v |-> v, end |-> last]
        ELSE remove_loop(v, first, first + 1, last, name)

\* items.erase(first, items.end()): drops [first, end).
erase(v, first) == SubSeq(v, 1, first - 1)

\* A removal that erases only the first match (find_if + erase of one).
removeItem_firstOnly(st, self, name) ==
    LET v == st[self]
        i == find_if(v, 1, Len(v) + 1, name)
    IN  [st  |-> [st EXCEPT ![self] =
                    SubSeq(v, 1, i - 1) \o SubSeq(v, i + 1, Len(v))],
         ret |-> self]

\* A removal that fills each hole with the last element (swap and pop).
RECURSIVE swapPop(_, _, _)
swapPop(v, i, name) ==
    IF i > Len(v) THEN v
    ELSE IF v[i].name = name
         THEN swapPop(SubSeq([v EXCEPT ![i] = v[Len(v)]], 1, Len(v) - 1),
                      i, name)
         ELSE swapPop(v, i + 1, name)

removeItem_unstable(st, self, name) ==
    [st |-> [st EXCEPT ![self] = swapPop(@, 1, name)], ret |-> self]

\* ShoppingCart& removeItem(name): the erase-remove idiom on this->items.
removeItem(st, self, name) ==
    LET r == remove_if(st[self], name)
    IN  [st |-> [st EXCEPT ![self] = erase(r.v, r.end)], ret |-> self]

\* double getTotal() const: total = 0.0, then total += item.price over the
\* items from the first to the last.
RECURSIVE getTotal_loop(_, _, _)
getTotal_loop(v, i, total) ==
    IF i > Len(v) THEN total
    ELSE getTotal_loop(v, i + 1, total + v[i].price)

getTotal_skipsFirst(v) == getTotal_loop(v, 2, 0)

getTotal(v) == getTotal_loop(v, 1, 0)

\* A getTotal that takes each item out of the vector as it adds its price.
getTotal_draining(st, self) ==
    [st |-> [st EXCEPT ![self] = <<>>], ret |-> getTotal(st[self])]

\* cart.getTotal(): a const member function; the object is left as it was
\* and the sum of the loop is handed back.  The class has the one data
\* member, items: there is no field holding a total.
getTotal_const(st, self) == [st |-> st, ret |-> getTotal(st[self])]

\* One line written to std::cout: the literal text, then the name and the
\* number streamed after it, if any.
Line(text, name, price) == [text |-> text, name |-> name, price |-> price]

\* A printItems that walks the vector from the last item to the first.
RECURSIVE printItems_backwards(_, _)
printItems_backwards(v, i) ==
    IF i > Len(v) THEN <<>>
    ELSE printItems_backwards(v, i + 1) \o <<Line("  - ", v[i].name, v[i].price)>>

\* The loop of printItems: one line per item, from the first to the last.
RECURSIVE printItems_loop(_, _)
printItems_loop(v, i) ==
    IF i > Len(v) THEN <<>>
    ELSE <<Line("  - ", v[i].name, v[i].price)>> \o printItems_loop(v, i + 1)

\* void printItems() const: the header, the items, then "Total: $" and
\* getTotal().  Nothing is returned (ret is the empty tuple).
printItems(st, self) ==
    LET t == getTotal_const(st, self)
    IN  [st  |-> t.st,
         out |-> <<Line("Shopping Cart:", "", 0)>>
                 \o printItems_loop(st[self], 1)
                 \o <<Line("Total: $", "", t.ret)>>,
         ret |-> <<>>]

\* cart.addItem(a).addItem(b)...: each call is made on the object the call
\* before it returned.
RECURSIVE chain(_, _, _)
chain(st, self, args) ==
    IF args = <<>> THEN [st |-> st, ret |-> self]
    ELSE LET r == addItem(st, self, Head(args).name, Head(args).price)
         IN  chain(r.st, r.ret, Tail(args))

\* The same calls made one statement at a time, each on the variable itself.
RECURSIVE separately(_, _, _)
separately(st, self, args) ==
    IF args = <<>> THEN st
    ELSE separately(addItem(st, self, Head(args).name, Head(args).price).st,
                    self, Tail(args))

\* ---- ghost bookkeeping: the entries currently present, as a bag ----------
BagAdd(b, e) == b (+) SetToBag({e})

BagWithoutName(b, n) ==
    LET keep == {e \in BagToSet(b) : e.name # n}
    IN  [e \in keep |-> b[e]]

RECURSIVE SumOver(_, _)
SumOver(b, S) ==
    IF S = {} THEN 0
    ELSE LET e == CHOOSE x \in S : TRUE
         IN  e.price * b[e] + SumOver(b, S \ {e})

BagTotal(b) == SumOver(b, BagToSet(b))

RECURSIVE SeqToBag(_)
SeqToBag(s) == IF s = <<>> THEN EmptyBag ELSE BagAdd(SeqToBag(Tail(s)), Head(s))

\* ---- the calls main makes on cart ---------------------------------------
CartInit ==
    /\ carts = [cart |-> <<>>, temp |-> <<>>]      \* ShoppingCart cart;
    /\ present = EmptyBag
    /\ cartCall = [op |-> "none", args |-> <<>>, before |-> 0,
                   out |-> <<>>, ret |-> <<>>]

\* cart.addItem(e.name, e.price);
AddItem(e) ==
    /\ Len(carts["cart"]) < MaxItems
    /\ carts' = addItem(carts, "cart", e.name, e.price).st
    /\ present' = BagAdd(present, e)
    /\ cartCall' = [op |-> "addItem", args |-> <<e>>,
                    before |-> Len(carts["cart"]), out |-> <<>>,
                    ret |-> <<addItem(carts, "cart", e.name, e.price).ret>>]

\* cart.addItem(..).addItem(..)[.addItem(..)];
ChainAdd(args) ==
    /\ Len(carts["cart"]) + Len(args) <= MaxItems
    /\ carts' = chain(carts, "cart", args).st
    /\ present' = present (+) SeqToBag(args)
    /\ cartCall' = [op |-> "chain", args |-> args,
                    before |-> Len(carts["cart"]), out |-> <<>>,
                    ret |-> <<chain(carts, "cart", args).ret>>]

\* cart.removeItem(n);
RemoveItem(n) ==
    /\ carts' = removeItem(carts, "cart", n).st
    /\ present' = BagWithoutName(present, n)
    /\ cartCall' = [op |-> "removeItem", args |-> <<n>>,
                    before |-> Len(carts["cart"]), out |-> <<>>,
                    ret |-> <<removeItem(carts, "cart", n).ret>>]

\* cart.getTotal()
GetTotal ==
    LET r == getTotal_const(carts, "cart")
    IN  /\ carts' = r.st
        /\ present' = present
        /\ cartCall' = [op |-> "getTotal", args |-> <<>>,
                        before |-> Len(carts["cart"]), out |-> <<>>,
                        ret |-> <<r.ret>>]

\* cart.printItems();
PrintItems ==
    LET r == printItems(carts, "cart")
    IN  /\ carts' = r.st
        /\ present' = present
        /\ cartCall' = [op |-> "printItems", args |-> <<>>,
                        before |-> Len(carts["cart"]), out |-> r.out,
                        ret |-> r.ret]

ChainArgs == UNION { [1..k -> Catalogue] : k \in 2..MaxChain }

CartNext ==
    \/ \E e \in Catalogue : AddItem(e)
    \/ \E args \in ChainArgs : ChainAdd(args)
    \/ \E n \in Names : RemoveItem(n)
    \/ GetTotal
    \/ PrintItems

(***************************************************************************)
(* DynamicArray, String, FileHandler                                       *)
(***************************************************************************)

\* The most objects constructed in one run.
MaxObjects == 2

\* The sizes callers pass to DynamicArray(size_t n).
Caps == {0, 1, 2}

\* The indices callers pass to operator[] beyond the array's size reach this.
MaxIndex == 2

\* The values callers store through operator[].
Vals == {10, 99}

\* What a read of storage nobody initialised, or of storage already given
\* back, may yield.
Indeterminate == {0, 77}

\* The most explicit destructor calls (obj.~T()) made on one object.
MaxExplicit == 1

\* C strings: the characters' codes, ended by the terminator 0.  NULL, the
\* null pointer passed as a const char*, is the one value with no terminator.
NULL == <<>>
CStrings == { <<0>>, <<72, 105, 0>> }      \* "" and "Hi"

\* A block of the free store, or a FILE of the C library: what it holds, and
\* how many times it was given back (delete[], fclose).  Address 0 is nullptr;
\* the address of a block is its position in heap.
Block(kind, cells) == [kind |-> kind, cells |-> cells, frees |-> 0]

\* new T[n] / fopen: the next address never handed out before.
newAddr(h) == Len(h) + 1

\* delete[] p / fclose(p).  delete[] of nullptr does nothing.
release(h, p) ==
    IF p = 0 THEN h
    ELSE [h EXCEPT ![p] = [@ EXCEPT !.frees = @ + 1, !.cells = <<>>]]

\* Whether p[idx] is an element of a block that is still allocated.
inBlock(h, p, idx) ==
    /\ p # 0
    /\ h[p].frees = 0
    /\ idx < Len(h[p].cells)

\* The elements of allocated int blocks: what a stray int* may hit.
liveCells(h) ==
    { <<a, k>> \in (1..Len(h)) \X (1..(MaxIndex + 1)) :
        h[a].frees = 0 /\ h[a].kind = "int[]" /\ k <= Len(h[a].cells) }

\* The heaps after *(p + idx) = v.  Inside an allocated block it is that
\* element; anywhere else the behaviour is undefined: the store lands outside
\* every block, or on an element of some allocated block.
storeAt(h, p, idx, v) ==
    IF inBlock(h, p, idx)
    THEN { [h EXCEPT ![p] = [@ EXCEPT !.cells = [@ EXCEPT ![idx + 1] = v]]] }
    ELSE {h} \cup
         { [h EXCEPT ![c[1]] = [@ EXCEPT !.cells = [@ EXCEPT ![c[2]] = v]]] :
             c \in liveCells(h) }

\* The values *(p + idx) may read.
loadAt(h, p, idx) ==
    IF inBlock(h, p, idx) THEN { h[p].cells[idx + 1] }
    ELSE Indeterminate \cup { h[c[1]].cells[c[2]] : c \in liveCells(h) }

\* The loop of DynamicArray(size_t): data[i] = 0 for i in [0, size).
RECURSIVE zeroFill_from(_, _, _)
zeroFill_from(cells, i, size) ==
    IF i >= size THEN cells
    ELSE zeroFill_from([cells EXCEPT ![i + 1] = 0], i + 1, size)

zeroFill_skipsLast(cells, size) == zeroFill_from(cells, 0, size - 1)

zeroFill(cells, size) == zeroFill_from(cells, 0, size)

\* std::copy(other.data, other.data + size, data): element by element, each
\* read through other.data.
RECURSIVE std_copy(_, _, _, _, _)
std_copy(h, src, size, dst, i) ==
    IF i >= size THEN {h}
    ELSE LET stored == UNION { storeAt(h, dst, i, x) : x \in loadAt(h, src, i) }
         IN  UNION { std_copy(h2, src, size, dst, i + 1) : h2 \in stored }

\* strlen(s): the characters before the terminator.
RECURSIVE strlen_from(_, _)
strlen_from(s, i) == IF s[i] = 0 THEN i - 1 ELSE strlen_from(s, i + 1)

strlen(s) == strlen_from(s, 1)

\* strcpy(dst, src) into a block of strlen(src) + 1 chars: the characters and
\* the terminator.
strcpy(s) == SubSeq(s, 1, strlen(s) + 1)

\* An object: its members (data or handle, and size or length), whether its
\* scope is still open and how many times its destructor has run.  copyOf is
\* ghost: the object it was copy-constructed from, 0 if none.
Object(kind, data, size, copyOf) ==
    [kind |-> kind, data |-> data, size |-> size,
     inScope |-> TRUE, destroyed |-> 0, copyOf |-> copyOf]

Contents(h, o) == IF o.data = 0 THEN <<>> ELSE h[o.data].cells

\* The last operation: on which object, with which index and value (read or
\* written; the size for a constructor), and the exception it threw, if any.
Call(op, obj, index, value) ==
    [op |-> op, obj |-> obj, index |-> index, value |-> value,
     error |-> "none"]

ResInit ==
    /\ objs = <<>>
    /\ heap = <<>>
    /\ resCall = Call("none", 0, 0, 0)

\* The objects a well-behaved caller may use: in scope and not yet destroyed.
Usable(kind) ==
    { i \in 1..Len(objs) :
        objs[i].kind = kind /\ objs[i].inScope /\ objs[i].destroyed = 0 }

\* The objects in scope whose destructor has already run (obj.~T() was
\* called on them).
Released(kind) ==
    { i \in 1..Len(objs) :
        objs[i].kind = kind /\ objs[i].inScope /\ objs[i].destroyed > 0 }

\* ---- DynamicArray ---------------------------------------------------------

\* DynamicArray(size_t n): data(new int[n]), size(n), then the zeroing loop.
\* g is what the fresh storage held.
NewArray(n, g) ==
    /\ Len(objs) < MaxObjects
    /\ heap' = Append(heap, Block("int[]", zeroFill([k \in 1..n |-> g], n)))
    /\ objs' = Append(objs, Object("DynamicArray", newAddr(heap), n, 0))
    /\ resCall' = Call("DynamicArray", Len(objs) + 1, 0, n)
    /\ UNCHANGED nonResVars

\* new int[n] throws std::bad_alloc: no object comes to exist, and the
\* exception leaves the scope.
NewArrayThrows(n) ==
    /\ Len(objs) < MaxObjects
    /\ resCall' = [Call("DynamicArray", 0, 0, n) EXCEPT !.error = "bad_alloc"]
    /\ UNCHANGED <<objs, heap, nonResVars>>

\* A copy constructor that copies the pointer, as the implicit one would.
DynamicArray_copy_shallow(h, other, g) ==
    { [heap |-> h, data |-> other.data, size |-> other.size] }

\* DynamicArray(const DynamicArray& other): data(new int[other.size]),
\* size(other.size), then std::copy(other.data, other.data + size, data).
DynamicArray_copy(h, other, g) ==
    LET a  == newAddr(h)
        h1 == Append(h, Block("int[]", [k \in 1..other.size |-> g]))
    IN  { [heap |-> h2, data |-> a, size |-> other.size] :
            h2 \in std_copy(h1, other.data, other.size, a, 0) }

\* DynamicArray arr2 = objs[i];
CopyArray(i) ==
    /\ Len(objs) < MaxObjects
    /\ \E g \in Indeterminate :
         \E r \in DynamicArray_copy(heap, objs[i], g) :
            /\ heap' = r.heap
            /\ objs' = Append(objs, Object("DynamicArray", r.data, r.size, i))
    /\ resCall' = Call("copy", Len(objs) + 1, 0, 0)
    /\ UNCHANGED nonResVars

\* int& operator[](size_t index) { return data[index]; } used as an rvalue.
Get(i, idx) ==
    /\ \E x \in loadAt(heap, objs[i].data, idx) :
         resCall' = Call("get", i, idx, x)
    /\ UNCHANGED <<objs, heap, nonResVars>>

\* objs[i][idx] = v;
Set(i, idx, v) ==
    /\ \E h2 \in storeAt(heap, objs[i].data, idx, v) : heap' = h2
    /\ resCall' = Call("set", i, idx, v)
    /\ UNCHANGED <<objs, nonResVars>>

\* ---- String ---------------------------------------------------------------

\* String(): data(nullptr), length(0).
NewString ==
    /\ Len(objs) < MaxObjects
    /\ objs' = Append(objs, Object("String", 0, 0, 0))
    /\ resCall' = Call("String", Len(objs) + 1, 0, 0)
    /\ UNCHANGED <<heap, nonResVars>>

\* String(const char* str).
StringFrom(str) ==
    /\ Len(objs) < MaxObjects
    /\ IF str # NULL
       THEN /\ heap' = Append(heap, Block("char[]", strcpy(str)))
            /\ objs' = Append(objs, Object("String", newAddr(heap), strlen(str), 0))
       ELSE /\ heap' = heap
            /\ objs' = Append(objs, Object("String", 0, 0, 0))
    /\ resCall' = Call("String", Len(objs) + 1, 0, 0)
    /\ UNCHANGED nonResVars

\* String(const String& other): length(other.length); a new block and a
\* strcpy if other.data is not null.
CopyString(i) ==
    /\ Len(objs) < MaxObjects
    /\ LET other == objs[i]
       IN  IF other.data # 0
           THEN /\ heap' = Append(heap,
                       Block("char[]", strcpy(heap[other.data].cells)))
                /\ objs' = Append(objs,
                       Object("String", newAddr(heap), other.size, i))
           ELSE /\ heap' = heap
                /\ objs' = Append(objs, Object("String", 0, other.size, i))
    /\ resCall' = Call("copy", Len(objs) + 1, 0, 0)
    /\ UNCHANGED nonResVars

\* ---- FileHandler ----------------------------------------------------------

\* FileHandler(name, mode): handle = fopen(name, mode), which may fail.
OpenFile(opened) ==
    /\ Len(objs) < MaxObjects
    /\ IF opened
       THEN /\ heap' = Append(heap, Block("FILE", <<>>))
            /\ objs' = Append(objs, Object("FileHandler", newAddr(heap), 0, 0))
       ELSE /\ heap' = heap
            /\ objs' = Append(objs, Object("FileHandler", 0, 0, 0))
    /\ resCall' = Call("FileHandler", Len(objs) + 1, 0, 0)
    /\ UNCHANGED nonResVars

\* FileHandler copy = objs[i]: the class declares no copy constructor, so the
\* implicit one copies handle and filename member by member.
CopyFile(i) ==
    /\ Len(objs) < MaxObjects
    /\ objs' = Append(objs, Object("FileHandler", objs[i].data, 0, i))
    /\ resCall' = Call("copy", Len(objs) + 1, 0, 0)
    /\ UNCHANGED <<heap, nonResVars>>

\* The longest a file grows in one run.
MaxFileLen == 4

\* The strings a read may deliver: what the file holds is up to the
\* environment.
FileTexts == { <<>>, <<72, 105>> }

\* fputs(text, handle): the characters before the terminator are written to
\* the stream, or, when the write fails (ok = FALSE), nothing is and EOF is
\* returned.
fputs(h, text, handle, ok) ==
    IF ok THEN [h EXCEPT ![handle] =
                  [@ EXCEPT !.cells = @ \o SubSeq(text, 1, strlen(text))]]
    ELSE h

\* void write(const char* text) { if (handle) fputs(text, handle); }
\* Nothing is returned and nothing is thrown, whether handle is null, fputs
\* fails or the text is written.
write(h, o, text, ok) ==
    [heap  |-> IF o.data # 0 THEN fputs(h, text, o.data, ok) ELSE h,
     error |-> "none"]

\* std::string read(): "" when handle is null, else what the fgets loop
\* collects (content) until fgets returns null.
read(h, o, content) ==
    [ret   |-> IF o.data = 0 THEN <<>> ELSE content,
     error |-> "none"]

\* objs[i].write(text);
WriteFile(i, text, ok) ==
    LET r == write(heap, objs[i], text, ok)
    IN  /\ objs[i].data # 0 => Len(heap[objs[i].data].cells) + strlen(text) <= MaxFileLen
        /\ heap' = r.heap
        /\ resCall' = [Call("write", i, 0, text) EXCEPT !.error = r.error]
        /\ UNCHANGED <<objs, nonResVars>>

\* std::string content = objs[i].read();
ReadFile(i, content) ==
    LET r == read(heap, objs[i], content)
    IN  /\ resCall' = [Call("read", i, 0, r.ret) EXCEPT !.error = r.error]
        /\ UNCHANGED <<objs, heap, nonResVars>>

\* ---- assignment -----------------------------------------------------------

\* objs[j] = objs[i];   None of the three classes declares operator=, so the
\* implicit copy assignment assigns the members one by one: the pointer (or
\* handle) and the size (or length).  What objs[j] pointed to is not freed.
operator_assign(this, other) ==
    [this EXCEPT !.data = other.data, !.size = other.size]

Assign(j, i) ==
    /\ i # j
    /\ objs[i].kind = objs[j].kind
    /\ objs' = [objs EXCEPT ![j] = operator_assign(objs[j], objs[i])]
    /\ resCall' = Call("=", j, 0, i)
    /\ UNCHANGED <<heap, nonResVars>>

\* ---- destructors ----------------------------------------------------------

\* ~DynamicArray() and ~String(): delete[] data.
\* ~FileHandler(): if (handle) fclose(handle).
destructor(h, o) ==
    IF o.kind = "FileHandler"
    THEN IF o.data # 0 THEN release(h, o.data) ELSE h
    ELSE release(h, o.data)

InScope == { i \in 1..Len(objs) : objs[i].inScope }

\* The closing brace (or an exception passing it): the object of the scope
\* constructed last is destroyed first.
ScopeExit ==
    /\ InScope # {}
    /\ LET i == CHOOSE j \in InScope : \A k \in InScope : k <= j
       IN  /\ heap' = destructor(heap, objs[i])
           /\ objs' = [objs EXCEPT ![i] =
                         [@ EXCEPT !.inScope = FALSE, !.destroyed = @ + 1]]
           /\ resCall' = Call("~", i, 0, 0)
    /\ UNCHANGED nonResVars

\* objs[i].~T(): the destructor called by hand; the object stays in scope.
Destroy(i) ==
    /\ objs[i].destroyed < MaxExplicit
    /\ heap' = destructor(heap, objs[i])
    /\ objs' = [objs EXCEPT ![i] = [@ EXCEPT !.destroyed = @ + 1]]
    /\ resCall' = Call("~", i, 0, 0)
    /\ UNCHANGED nonResVars

(***************************************************************************)
(* IDGenerator, GlobalCounter                                              *)
(***************************************************************************)

\* The most instances constructed one after the other in one run.
MaxInstances == 6

\* The most constructions begun in one run of the two threads.
MaxRaced == 4

\* The execution contexts that construct instances side by side.
Threads == {1, 2}

\* An instance of class cls and the value its constructor stored in it
\* (myID, myCount).
Instance(cls, value) == [class |-> cls, value |-> value]

\* int IDGenerator::nextID = 1;  int GlobalCounter::totalCount = 0;
CounterInit ==
    /\ counters = [nextID |-> 1, totalCount |-> 0, made |-> <<>>]
    /\ threads = [t \in Threads |-> [pc |-> "idle", class |-> "none", tmp |-> 0]]

\* A constructor that steps the counter before it reads it (++nextID).
IDGenerator_preIncrement(c) ==
    [c EXCEPT !.nextID = @ + 1,
              !.made = Append(@, Instance("IDGenerator", c.nextID + 1))]

\* IDGenerator() { myID = nextID++; }
IDGenerator(c) ==
    [c EXCEPT !.nextID = @ + 1,
              !.made = Append(@, Instance("IDGenerator", c.nextID))]

\* GlobalCounter() { myCount = totalCount++; }
GlobalCounter(c) ==
    [c EXCEPT !.totalCount = @ + 1,
              !.made = Append(@, Instance("GlobalCounter", c.totalCount))]

\* IDGenerator gen;   (one thread, each constructor run to its end)
NewIDGenerator ==
    /\ Len(counters.made) < MaxInstances
    /\ counters' = IDGenerator(counters)
    /\ UNCHANGED <<threads, nonCounterVars>>

\* GlobalCounter c;
NewGlobalCounter ==
    /\ Len(counters.made) < MaxInstances
    /\ counters' = GlobalCounter(counters)
    /\ UNCHANGED <<threads, nonCounterVars>>

\* The static counter of a class.
static(c, cls) == IF cls = "IDGenerator" THEN c.nextID ELSE c.totalCount

\* nextID++ and totalCount++ on a plain static int are a read of the counter
\* followed by a write of the value read plus one; nothing orders the two
\* against the reads and writes of another thread.
\* First half of the constructor in thread t: the read.
Load(t, cls) ==
    /\ threads[t].pc = "idle"
    /\ Len(counters.made)
         + Cardinality({u \in Threads : threads[u].pc = "loaded"}) < MaxRaced
    /\ threads' = [threads EXCEPT ![t] =
                     [pc |-> "loaded", class |-> cls,
                      tmp |-> static(counters, cls)]]
    /\ UNCHANGED <<counters, nonCounterVars>>

\* Second half: the counter gets the value read plus one, the member gets
\* the value read.
Store(t) ==
    /\ threads[t].pc = "loaded"
    /\ counters' =
         LET cls == threads[t].class
             tmp == threads[t].tmp
             c   == [counters EXCEPT
                       !.made = Append(@, Instance(cls, tmp))]
         IN  IF cls = "IDGenerator" THEN [c EXCEPT !.nextID = tmp + 1]
             ELSE [c EXCEPT !.totalCount = tmp + 1]
    /\ threads' = [threads EXCEPT ![t] =
                     [pc |-> "idle", class |-> "none", tmp |-> 0]]
    /\ UNCHANGED nonCounterVars

(***************************************************************************)
(* Calculator                                                              *)
(***************************************************************************)

\* The most calls made on calc in one run (main chains four).
MaxCalls == 4

\* The largest magnitude value may take: the int additions, subtractions
\* and multiplications explored stay far from the ends of int.
MaxAbs == 60

\* The arguments callers pass: those of main's chain.
Nums == {2, 3, 5, 10}

Ops == {"add", "subtract", "multiply"}

\* An add that returns a Calculator by value: the caller gets a temporary
\* copy of the object.
add_byValue(st, self, num) ==
    LET added == [st EXCEPT ![self] = @ + num]
    IN  [st |-> [added EXCEPT !["temp"] = added[self]], ret |-> "temp"]

\* Calculator& add(int num) { value += num; return *this; }
add(st, self, num) == [st |-> [st EXCEPT ![self] = @ + num], ret |-> self]

\* Calculator& subtract(int num) { value -= num; return *this; }
subtract(st, self, num) == [st |-> [st EXCEPT ![self] = @ - num], ret |-> self]

\* Calculator& multiply(int num) { value *= num; return *this; }
multiply(st, self, num) == [st |-> [st EXCEPT ![self] = @ * num], ret |-> self]

\* int getResult() const { return value; }
getResult(st, self) == st[self]

\* The member function named op, called on the object at self.
call(op, st, self, num) ==
    CASE op = "add"      -> add(st, self, num)
      [] op = "subtract" -> subtract(st, self, num)
      [] op = "multiply" -> multiply(st, self, num)

\* calc.add(10).add(5).subtract(3).multiply(2)
MainChain ==
    << [op |-> "add", num |-> 10], [op |-> "add", num |-> 5],
       [op |-> "subtract", num |-> 3], [op |-> "multiply", num |-> 2] >>

\* Calculator calc;   value(0).  temp is where a returned copy would live.
\* alone is the value of a Calculator on which the same calls are made
\* one statement at a time; recv is the object the last call returned.
CalcInit ==
    calc = [value |-> [calc |-> 0, temp |-> 0], recv |-> "calc", n |-> 0,
            alone |-> [calc |-> 0, temp |-> 0], main |-> 0,
            last |-> [op |-> "none", num |-> 0, chained |-> FALSE]]

\* calc.op(num) in a statement of its own (chained = FALSE), or .op(num)
\* appended to the call before it (chained = TRUE): the call is then made
\* on what that call returned.
CalcCall(op, num, chained) ==
    LET self == IF chained THEN calc.recv ELSE "calc"
        r    == call(op, calc.value, self, num)
        a    == call(op, calc.alone, "calc", num)
    IN  /\ calc.n < MaxCalls
        /\ chained => calc.n > 0
        /\ \A o \in DOMAIN r.st : r.st[o] \in -MaxAbs..MaxAbs
        /\ calc' = [value |-> r.st, recv |-> r.ret, n |-> calc.n + 1,
                    alone |-> a.st,
                    main  |-> IF /\ calc.main = calc.n
                                 /\ calc.n < Len(MainChain)
                                 /\ chained = (calc.n > 0)
                                 /\ MainChain[calc.n + 1] = [op |-> op, num |-> num]
                              THEN calc.main + 1 ELSE calc.main,
                    last  |-> [op |-> op, num |-> num, chained |-> chained]]
        /\ UNCHANGED nonCalcVars

CalcNext == \E op \in Ops, num \in Nums, chained \in BOOLEAN :
                CalcCall(op, num, chained)

(***************************************************************************)
(* findMax                                                                 *)
(***************************************************************************)

\* The values main's variables are declared with: those of main and a
\* negative one; equal values are drawn as well.
Ints == {-5, 10, 15, 25}

\* The values assigned through the reference (main assigns 100).
Assigned == {100, 0}

Places == {"x", "y", "z"}

\* A findMax whose first test leaves out the comparison with c.
findMax_firstTestShort(st, a, b, c) ==
    IF st[a] >= st[b] THEN a
    ELSE IF st[b] >= st[a] /\ st[b] >= st[c] THEN b
    ELSE c

\* int& findMax(int& a, int& b, int& c): a, b and c are the places of the
\* caller's variables, and the result is one of these places.
findMax(st, a, b, c) ==
    IF st[a] >= st[b] /\ st[a] >= st[c] THEN a
    ELSE IF st[b] >= st[a] /\ st[b] >= st[c] THEN b
    ELSE c

\* Before main's "Solution 7" block.  declared keeps the values the
\* variables were declared with.
FmInit ==
    fm = [st |-> [x |-> 0, y |-> 0, z |-> 0], max |-> "none", pc |-> "start",
          declared |-> [x |-> 0, y |-> 0, z |-> 0], assigned |-> 0]

\* int x = a, y = b, z = c;
Declare(a, b, c) ==
    /\ fm.pc \in {"start", "assigned"}
    /\ fm' = [st |-> [x |-> a, y |-> b, z |-> c], max |-> "none",
              pc |-> "declared",
              declared |-> [x |-> a, y |-> b, z |-> c], assigned |-> 0]
    /\ UNCHANGED nonFmVars

\* int& max = findMax(x, y, z);
CallFindMax ==
    /\ fm.pc = "declared"
    /\ fm' = [fm EXCEPT !.max = findMax(fm.st, "x", "y", "z"),
                        !.pc = "called"]
    /\ UNCHANGED nonFmVars

\* max = v;   an assignment to the variable max refers to.
AssignThroughMax(v) ==
    /\ fm.pc = "called"
    /\ fm' = [fm EXCEPT !.st = [@ EXCEPT ![fm.max] = v],
                        !.assigned = v,
                        !.pc = "assigned"]
    /\ UNCHANGED nonFmVars

FmNext ==
    \/ \E a \in Ints, b \in Ints, c \in Ints : Declare(a, b, c)
    \/ CallFindMax
    \/ \E v \in Assigned : AssignThroughMax(v)

(***************************************************************************)
(* Student                                                                 *)
(***************************************************************************)

\* The most addGrade calls in one run (main makes four).
MaxGradeCalls == 4

\* The grades callers pass: main's 85, 90, 78 and 150, the two ends of the
\* range and the values next to them.
Grades == {-1, 0, 78, 85, 90, 100, 101, 150}

\* An addGrade that checks the lower end of the range only.
addGrade_noUpperBound(grades, grade) ==
    IF grade >= 0 THEN [grades |-> Append(grades, grade), out |-> <<>>]
    ELSE [grades |-> grades, out |-> <<"Invalid grade: ">>]

\* void addGrade(int grade): push_back when 0 <= grade <= 100, a message on
\* std::cout otherwise.
addGrade(grades, grade) ==
    IF grade >= 0 /\ grade <= 100
    THEN [grades |-> Append(grades, grade), out |-> <<>>]
    ELSE [grades |-> grades, out |-> <<"Invalid grade: ">>]

\* size_t getGradeCount() const { return grades.size(); }
getGradeCount(grades) == Len(grades)

\* Student alice("Alice");   calls and inRange count the addGrade calls made
\* and those whose argument was in 0..100.
StudentInit ==
    student = [grades |-> <<>>, calls |-> 0, inRange |-> 0,
               last |-> 0, out |-> <<>>]

\* alice.addGrade(g);
AddGrade(g) ==
    LET r == addGrade(student.grades, g)
    IN  /\ student.calls < MaxGradeCalls
        /\ student' = [grades  |-> r.grades,
                       calls   |-> student.calls + 1,
                       inRange |-> IF g \in 0..100 THEN student.inRange + 1
                                   ELSE student.inRange,
                       last    |-> g,
                       out     |-> r.out]
        /\ UNCHANGED nonStudentVars

StudentNext == \E g \in Grades : AddGrade(g)

(***************************************************************************)
(* power, sumUpTo                                                          *)
(***************************************************************************)

\* The largest exponent and the largest n evaluated (main evaluates
\* power(2, 10) and sumUpTo(100)).  3^11 and the sum up to 101 are far
\* below 2^31: no int operation explored overflows.
MaxExp == 10
MaxN == 100

\* The bases and the least n evaluated.
Bases == -3..3
MinN == -3

\* A power whose recursion ends with 0.
RECURSIVE power_endsWithZero(_, _)
power_endsWithZero(base, exp) ==
    IF exp = 0 THEN 0 ELSE base * power_endsWithZero(base, exp - 1)

\* constexpr int power(int base, int exp)
RECURSIVE power(_, _)
power(base, exp) == IF exp = 0 THEN 1 ELSE base * power(base, exp - 1)

\* constexpr int sumUpTo(int n)
RECURSIVE sumUpTo(_)
sumUpTo(n) == IF n <= 0 THEN 0 ELSE n + sumUpTo(n - 1)

\* Nothing evaluated yet.
CxInit == cx = [fn |-> "none", args |-> <<>>, value |-> 0]

\* constexpr int p = power(base, exp);
EvalPower(base, exp) ==
    /\ cx' = [fn |-> "power", args |-> <<base, exp>>,
              value |-> power(base, exp)]
    /\ UNCHANGED nonCxVars

\* constexpr int s = sumUpTo(n);
EvalSumUpTo(n) ==
    /\ cx' = [fn |-> "sumUpTo", args |-> <<n>>, value |-> sumUpTo(n)]
    /\ UNCHANGED nonCxVars

CxNext ==
    \/ \E base \in Bases, exp \in 0..MaxExp : EvalPower(base, exp)
    \/ \E n \in MinN..MaxN : EvalSumUpTo(n)

(***************************************************************************)
(* BankAccount                                                             *)
(***************************************************************************)

\* balance and the amounts are doubles in the source.  They are counted
\* here in hundreds of dollars (10 = 1000.0, 5 = 500.0, 2 = 200.0,
\* 20 = 2000.0): whole numbers of this size and their sums and differences
\* are doubles held exactly, so += and -= are exact integer operations.

\* The most deposit and withdraw calls in one run (main makes three).
MaxAccountCalls == 4

\* The initial balances accounts are constructed with: main's 1000.0, zero
\* and a negative one (the constructor checks nothing).
Initials == {-5, 0, 10}

\* The amounts callers pass: main's 500.0, 200.0 and 2000.0, zero and a
\* negative one.
Amounts == {-2, 0, 2, 5, 20}

\* A withdraw that does not compare the amount with the balance.
withdraw_overdraws(balance, amount) ==
    IF amount > 0
    THEN [balance |-> balance - amount, ret |-> TRUE]
    ELSE [balance |-> balance, ret |-> FALSE]

\* bool withdraw(double amount)
withdraw(balance, amount) ==
    IF amount > 0 /\ amount <= balance
    THEN [balance |-> balance - amount, ret |-> TRUE]
    ELSE [balance |-> balance, ret |-> FALSE]

\* A deposit that adds whatever it is given.
deposit_unchecked(balance, amount) == balance + amount

\* void deposit(double amount)
deposit(balance, amount) ==
    IF amount > 0 THEN balance + amount ELSE balance

\* double getBalance() const
getBalance(a) == a.balance

\* Before main's "Example 4" block: no account yet.
AccountInit ==
    account = [open |-> FALSE, initial |-> 0, balance |-> 0, n |-> 0,
               last |-> [op |-> "none", amount |-> 0, before |-> 0,
                         ret |-> FALSE]]

\* BankAccount account("Alice", initial);   balance(initial)
NewAccount(initial) ==
    /\ ~account.open
    /\ account' = [open |-> TRUE, initial |-> initial, balance |-> initial,
                   n |-> 0,
                   last |-> [op |-> "BankAccount", amount |-> initial,
                             before |-> 0, ret |-> FALSE]]
    /\ UNCHANGED nonAccountVars

\* account.deposit(amount);
Deposit(amount) ==
    /\ account.open
    /\ account.n < MaxAccountCalls
    /\ account' = [account EXCEPT
                     !.balance = deposit(account.balance, amount),
                     !.n = @ + 1,
                     !.last = [op |-> "deposit", amount |-> amount,
                               before |-> account.balance, ret |-> FALSE]]
    /\ UNCHANGED nonAccountVars

\* account.withdraw(amount)
Withdraw(amount) ==
    LET r == withdraw(account.balance, amount)
    IN  /\ account.open
        /\ account.n < MaxAccountCalls
        /\ account' = [account EXCEPT
                         !.balance = r.balance,
                         !.n = @ + 1,
                         !.last = [op |-> "withdraw", amount |-> amount,
                                   before |-> account.balance,
                                   ret |-> r.ret]]
        /\ UNCHANGED nonAccountVars

AccountNext ==
    \/ \E initial \in Initials : NewAccount(initial)
    \/ \E amount \in Amounts : Deposit(amount)
    \/ \E amount \in Amounts : Withdraw(amount)

(***************************************************************************)
(* shared_ptr, weak_ptr                                                    *)
(***************************************************************************)

\* The most objects made by make_shared and the most smart-pointer
\* variables in scope at once in one run.
MaxManaged == 2
MaxLocals == 4

\* What make_shared makes: an int (sharedPtrBasics) or a Node
\* (weakPtrExample).
Managed == {"int", "Node"}

\* An object made by make_shared together with its control block: use is
\* the strong count use_count() reports; destroyed counts the runs of its
\* destructor.  A Node has the members next (a shared_ptr) and prev (a
\* weak_ptr); 0 is the empty pointer.  Objects are named by their position
\* in sp.objects.
ManagedObject(kind, data) ==
    [kind |-> kind, data |-> data, use |-> 1, destroyed |-> 0,
     next |-> 0, prev |-> 0]

\* A smart-pointer variable of the function and the object it points to.
Local(kind, target) == [kind |-> kind, target |-> target]

\* long use_count() const
use_count(objects, i) == IF i = 0 THEN 0 ELSE objects[i].use

\* ~shared_ptr(), and the old value of an assigned shared_ptr: the strong
\* count drops by one; when it reaches 0 the object is destroyed, and with
\* it its members: next gives up the object it points to.
RECURSIVE shared_release(_, _)
shared_release(objects, i) ==
    IF i = 0 THEN objects
    ELSE IF objects[i].use > 1
         THEN [objects EXCEPT ![i] = [@ EXCEPT !.use = @ - 1]]
         ELSE shared_release(
                  [objects EXCEPT ![i] = [@ EXCEPT !.use = 0,
                                                   !.destroyed = @ + 1,
                                                   !.next = 0]],
                  objects[i].next)

\* A copy that takes the pointer and leaves the count as it was.
shared_copy_uncounted(objects, i) == objects

\* shared_ptr(const shared_ptr&): one more owner of the object.
shared_copy(objects, i) ==
    IF i = 0 THEN objects
    ELSE [objects EXCEPT ![i] = [@ EXCEPT !.use = @ + 1]]

\* a->next = (shared_ptr to b): the new object is taken, then the old one
\* is given up.
shared_assign(objects, a, b) ==
    LET taken == shared_copy(objects, b)
    IN  shared_release([taken EXCEPT ![a] = [@ EXCEPT !.next = b]],
                       objects[a].next)

\* A prev that owns what it points to, as a shared_ptr member would.
weak_assign_owning(objects, a, b) ==
    [objects EXCEPT ![a] = [@ EXCEPT !.prev = b],
                    ![b] = [@ EXCEPT !.use = @ + 1]]

\* a->prev = (shared_ptr to b): weak_ptr::operator=(const shared_ptr&).
\* The strong count of b is not touched.
weak_assign(objects, a, b) ==
    [objects EXCEPT ![a] = [@ EXCEPT !.prev = b]]

\* weak_ptr::lock(): a shared_ptr to the object if it has not been
\* destroyed (one more owner), an empty one otherwise.
lock(objects, w) ==
    IF w # 0 /\ objects[w].use > 0
    THEN [objects |-> shared_copy(objects, w), ret |-> w]
    ELSE [objects |-> objects, ret |-> 0]

\* The function has just been entered.  strong and weak tell whether the
\* assignments to next and to prev have been made, locked what the last
\* lock() gave.
SpInit ==
    sp = [objects |-> <<>>, locals |-> <<>>, strong |-> FALSE, weak |-> FALSE,
          locked |-> 0,
          last |-> [op |-> "none", arg |-> 0, ret |-> 0]]

\* The objects some shared_ptr variable of the function points to.
Held(kind) ==
    { i \in 1..Len(sp.objects) :
        /\ sp.objects[i].kind = kind
        /\ \E k \in 1..Len(sp.locals) :
             sp.locals[k].kind = "shared" /\ sp.locals[k].target = i }

\* auto p = std::make_shared<T>(data);
MakeShared(kind, data) ==
    /\ Len(sp.objects) < MaxManaged
    /\ Len(sp.locals) < MaxLocals
    /\ sp' = [sp EXCEPT
                !.objects = Append(@, ManagedObject(kind, data)),
                !.locals = Append(@, Local("shared", Len(sp.objects) + 1)),
                !.last = [op |-> "make_shared", arg |-> Len(sp.objects) + 1,
                          ret |-> Len(sp.objects) + 1]]
    /\ UNCHANGED nonSpVars

\* auto ptr2 = ptr1;   where ptr1 is the variable locals[k]
CopyShared(k) ==
    /\ Len(sp.locals) < MaxLocals
    /\ sp.locals[k].kind = "shared"
    /\ sp' = [sp EXCEPT
                !.objects = shared_copy(@, sp.locals[k].target),
                !.locals = Append(@, Local("shared", sp.locals[k].target)),
                !.last = [op |-> "copy", arg |-> sp.locals[k].target,
                          ret |-> sp.locals[k].target]]
    /\ UNCHANGED nonSpVars

\* node1->next = node2;   a was made before b, as node1 before node2
SetNext(a, b) ==
    /\ a < b
    /\ sp' = [sp EXCEPT
                !.objects = shared_assign(@, a, b),
                !.strong = TRUE,
                !.last = [op |-> "next=", arg |-> a, ret |-> b]]
    /\ UNCHANGED nonSpVars

\* node2->prev = node1;   b was made before a
SetPrev(a, b) ==
    /\ b < a
    /\ sp' = [sp EXCEPT
                !.objects = weak_assign(@, a, b),
                !.weak = TRUE,
                !.last = [op |-> "prev=", arg |-> a, ret |-> b]]
    /\ UNCHANGED nonSpVars

\* if (auto temp = a->prev.lock()) ...: temp is a variable of the if.
Lock(a) ==
    LET r == lock(sp.objects, sp.objects[a].prev)
    IN  /\ Len(sp.locals) < MaxLocals
        /\ sp' = [sp EXCEPT
                    !.objects = r.objects,
                    !.locals = Append(@, Local("shared", r.ret)),
                    !.locked = r.ret,
                    !.last = [op |-> "lock", arg |-> a, ret |-> r.ret]]
        /\ UNCHANGED nonSpVars

\* A closing brace: the variable declared last is destroyed.
SpScopeExit ==
    /\ sp.locals # <<>>
    /\ LET k == Len(sp.locals)
       IN  sp' = [sp EXCEPT
                    !.objects = shared_release(@, sp.locals[k].target),
                    !.locals = SubSeq(@, 1, k - 1),
                    !.last = [op |-> "~", arg |-> sp.locals[k].target,
                              ret |-> 0]]
    /\ UNCHANGED nonSpVars

SpNext ==
    \/ \E kind \in Managed : MakeShared(kind, IF kind = "int" THEN 100
                                              ELSE Len(sp.objects) + 1)
    \/ \E k \in 1..Len(sp.locals) : CopyShared(k)
    \/ \E a \in Held("Node"), b \in Held("Node") : SetNext(a, b)
    \/ \E a \in Held("Node"), b \in Held("Node") : SetPrev(a, b)
    \/ \E a \in Held("Node") : Lock(a)
    \/ SpScopeExit

(***************************************************************************)
(* unique_ptr                                                              *)
(***************************************************************************)

\* The most objects made by make_unique and the most variables in scope at
\* once in one run (containerExample makes three Widgets).
MaxOwned == 3
MaxOwners == 3

\* The values the objects are made with: 42 (uniquePtrBasics, initCapture)
\* and a Widget id.
OwnedData == {42, 1}

\* An object made by make_unique; destroyed counts the runs of its
\* destructor.  Objects are named by their position in up.objects.
OwnedObject(data) == [data |-> data, destroyed |-> 0]

\* A variable of the function that holds unique_ptrs: a unique_ptr itself,
\* a lambda with a unique_ptr captured by move, or a vector of unique_ptrs.
\* ptrs are the pointers it holds, 0 for nullptr.
Owner(kind, ptrs) == [kind |-> kind, ptrs |-> ptrs]

\* A move that leaves the source pointing to the object.
unique_move_keepsSource(owners, k, kind) ==
    Append(owners, Owner(kind, <<owners[k].ptrs[1]>>))

\* unique_ptr(unique_ptr&& u): the new pointer takes u.release(), which
\* leaves u holding nullptr.  The new pointer is a variable of its own
\* (auto ptr2 = std::move(ptr)) or the capture of a lambda
\* ([ptr = std::move(ptr)]).
unique_move(owners, k, kind) ==
    Append([owners EXCEPT ![k] = [@ EXCEPT !.ptrs = <<0>>]],
           Owner(kind, <<owners[k].ptrs[1]>>))

\* ~unique_ptr() for each pointer held: delete of the object, if any.
RECURSIVE unique_destroy(_, _)
unique_destroy(objects, ptrs) ==
    IF ptrs = <<>> THEN objects
    ELSE LET i    == ptrs[Len(ptrs)]
             rest == SubSeq(ptrs, 1, Len(ptrs) - 1)
         IN  unique_destroy(
                 IF i = 0 THEN objects
                 ELSE [objects EXCEPT ![i] = [@ EXCEPT !.destroyed = @ + 1]],
                 rest)

\* The function has just been entered.  moved tells whether an object has
\* been moved from one pointer to another.
UpInit ==
    up = [objects |-> <<>>, owners |-> <<>>, moved |-> FALSE,
          last |-> [op |-> "none", from |-> 0, to |-> 0, ret |-> 0]]

\* auto ptr = std::make_unique<T>(data);
MakeUnique(data) ==
    /\ Len(up.objects) < MaxOwned
    /\ Len(up.owners) < MaxOwners
    /\ up' = [up EXCEPT
                !.objects = Append(@, OwnedObject(data)),
                !.owners = Append(@, Owner("unique_ptr", <<Len(up.objects) + 1>>)),
                !.last = [op |-> "make_unique", from |-> 0,
                          to |-> Len(up.owners) + 1,
                          ret |-> Len(up.objects) + 1]]
    /\ UNCHANGED nonUpVars

\* auto ptr2 = std::move(ptr);   or   auto lambda = [ptr = std::move(ptr)]...
\* where ptr is the variable owners[k]
Move(k, kind) ==
    /\ Len(up.owners) < MaxOwners
    /\ up.owners[k].kind = "unique_ptr"
    /\ up' = [up EXCEPT
                !.owners = unique_move(@, k, kind),
                !.moved = @ \/ up.owners[k].ptrs[1] # 0,
                !.last = [op |-> "move", from |-> k,
                          to |-> Len(up.owners) + 1,
                          ret |-> up.owners[k].ptrs[1]]]
    /\ UNCHANGED nonUpVars

\* std::vector<std::unique_ptr<Widget>> widgets;
NewVector ==
    /\ Len(up.owners) < MaxOwners
    /\ up' = [up EXCEPT
                !.owners = Append(@, Owner("vector", <<>>)),
                !.last = [op |-> "vector", from |-> 0,
                          to |-> Len(up.owners) + 1, ret |-> 0]]
    /\ UNCHANGED nonUpVars

\* widgets.push_back(std::make_unique<Widget>(data));   the temporary is
\* moved into the new element and destroyed empty.
PushBack(k, data) ==
    /\ Len(up.objects) < MaxOwned
    /\ up.owners[k].kind = "vector"
    /\ up' = [up EXCEPT
                !.objects = Append(@, OwnedObject(data)),
                !.owners = [@ EXCEPT ![k] =
                              [@ EXCEPT !.ptrs = Append(@, Len(up.objects) + 1)]],
                !.last = [op |-> "push_back", from |-> 0, to |-> k,
                          ret |-> Len(up.objects) + 1]]
    /\ UNCHANGED nonUpVars

\* *ptr2, lambda(), w->use(): the object is read through a pointer that
\* is not null.
Deref(k, j) ==
    /\ up.owners[k].ptrs[j] # 0
    /\ up' = [up EXCEPT
                !.last = [op |-> "*", from |-> k, to |-> k,
                          ret |-> up.objects[up.owners[k].ptrs[j]].data]]
    /\ UNCHANGED nonUpVars

\* A closing brace: the variable declared last is destroyed.
UpScopeExit ==
    /\ up.owners # <<>>
    /\ LET k == Len(up.owners)
       IN  up' = [up EXCEPT
                    !.objects = unique_destroy(@, up.owners[k].ptrs),
                    !.owners = SubSeq(@, 1, k - 1),
                    !.last = [op |-> "~", from |-> k, to |-> 0, ret |-> 0]]
    /\ UNCHANGED nonUpVars

UpNext ==
    \/ \E data \in OwnedData : MakeUnique(data)
    \/ \E k \in 1..Len(up.owners), kind \in {"unique_ptr", "lambda"} :
         Move(k, kind)
    \/ NewVector
    \/ \E k \in 1..Len(up.owners), data \in OwnedData : PushBack(k, data)
    \/ \E k \in 1..Len(up.owners) :
         \E j \in 1..Len(up.owners[k].ptrs) : Deref(k, j)
    \/ UpScopeExit

\* ---- specifications -------------------------------------------------------

Init == CartInit /\ ResInit /\ CounterInit /\ CalcInit /\ FmInit /\ StudentInit /\ CxInit
          /\ AccountInit /\ SpInit /\ UpInit

\* The calls of 03_classes_basics/solution.cpp's main on its cart.
CartStep == CartNext /\ UNCHANGED nonCartVars

SpecCart == Init /\ [][CartStep]_vars

\* Callers that keep to the classes' preconditions: indices inside the array,
\* objects used while they exist.

\* 04_constructors_destructors/example.cpp: DynamicArray.
ArrayNext ==
    \/ \E n \in Caps, g \in Indeterminate : NewArray(n, g)
    \/ \E n \in Caps : NewArrayThrows(n)
    \/ \E i \in Usable("DynamicArray") : CopyArray(i)
    \/ \E i \in Usable("DynamicArray") :
         \E idx \in 0..(objs[i].size - 1) : Get(i, idx)
    \/ \E i \in Usable("DynamicArray") :
         \E idx \in 0..(objs[i].size - 1), v \in Vals : Set(i, idx, v)

\* 04_constructors_destructors/solution.cpp: String.
StringNext ==
    \/ NewString
    \/ \E str \in CStrings \cup {NULL} : StringFrom(str)
    \/ \E i \in Usable("String") : CopyString(i)

\* 04_constructors_destructors/solution.cpp: FileHandler.
FileNext ==
    \/ \E opened \in BOOLEAN : OpenFile(opened)
    \/ \E i \in Usable("FileHandler") : CopyFile(i)

\* The classes with a copy constructor of their own.
SpecCopy == Init /\ [][ArrayNext \/ StringNext \/ ScopeExit]_vars

\* All three classes.
ResNext == ArrayNext \/ StringNext \/ FileNext \/ ScopeExit

SpecRes == Init /\ [][ResNext]_vars

\* Callers that break them: an index at or past the size, a destructor
\* called by hand, an object used after its destructor ran.
MisuseNext ==
    \/ \E i \in Usable("DynamicArray") :
         \E idx \in objs[i].size..MaxIndex : Get(i, idx)
    \/ \E i \in Usable("DynamicArray") :
         \E idx \in objs[i].size..MaxIndex, v \in Vals : Set(i, idx, v)
    \/ \E i \in Usable("DynamicArray") \cup Released("DynamicArray") : Destroy(i)
    \/ \E i \in Released("DynamicArray") :
         \E idx \in 0..MaxIndex : Get(i, idx)
    \/ \E i \in Released("DynamicArray") :
         \E idx \in 0..MaxIndex, v \in Vals : Set(i, idx, v)
    \/ \E i \in Released("DynamicArray") : CopyArray(i)

SpecMisuse == Init /\ [][ResNext \/ MisuseNext]_vars

\* 04_constructors_destructors/solution.cpp: a FileHandler is constructed,
\* written to and read from, then leaves its scope.
FileUseNext ==
    \/ \E opened \in BOOLEAN : OpenFile(opened)
    \/ \E i \in Usable("FileHandler") :
         \E text \in CStrings, ok \in BOOLEAN : WriteFile(i, text, ok)
    \/ \E i \in Usable("FileHandler") :
         \E content \in FileTexts : ReadFile(i, content)
    \/ ScopeExit

SpecFile == Init /\ [][FileUseNext]_vars

\* Objects of the three classes constructed, copied, assigned to one
\* another and destroyed at the end of their scope.
AssignNext ==
    \E j \in Usable("DynamicArray") \cup Usable("String") \cup Usable("FileHandler") :
        \E i \in Usable(objs[j].kind) : Assign(j, i)

SpecAssign == Init /\ [][ResNext \/ AssignNext]_vars

\* 03_classes_basics: instances constructed one after the other.
CounterNext == NewIDGenerator \/ NewGlobalCounter

SpecCounter == Init /\ [][CounterNext]_vars

\* The same constructors run by two threads.
RaceNext ==
    \/ \E t \in Threads, cls \in {"IDGenerator", "GlobalCounter"} : Load(t, cls)
    \/ \E t \in Threads : Store(t)

SpecRace == Init /\ [][RaceNext]_vars

\* 01_references/solution.cpp: the calls on calc; x, y, z and max.
SpecCalc == Init /\ [][CalcNext]_vars

SpecFindMax == Init /\ [][FmNext]_vars

\* 03_classes_basics/solution.cpp: the calls on alice.
SpecStudent == Init /\ [][StudentNext]_vars

\* 00_cpp_syntax/solution.cpp: the constant expressions.
SpecConstexpr == Init /\ [][CxNext]_vars

\* 03_classes_basics/example.cpp: the calls on account.
SpecAccount == Init /\ [][AccountNext]_vars

\* 10_smart_pointers/example.cpp: sharedPtrBasics and weakPtrExample.
SpecShared == Init /\ [][SpNext]_vars

\* uniquePtrBasics, containerExample and initCapture.
SpecUnique == Init /\ [][UpNext]_vars

(***************************************************************************)
(* Properties of ShoppingCart (checked under SpecCart)                     *)
(***************************************************************************)

items == carts["cart"]

Count(v, e) == Cardinality({k \in 1..Len(v) : v[k] = e})

Entries(v) == {v[k] : k \in 1..Len(v)}

\* Whether s can be got from t by deleting elements, the rest kept in order.
RECURSIVE IsSubseq(_, _)
IsSubseq(s, t) ==
    IF s = <<>> THEN TRUE
    ELSE IF t = <<>> THEN FALSE
    ELSE IF Head(s) = Head(t) THEN IsSubseq(Tail(s), Tail(t))
    ELSE IsSubseq(s, Tail(t))

\* C3: after any sequence of addItem and removeItem calls, getTotal() is the
\* sum of the prices of exactly the entries added and not removed since, and
\* is 0 when no entry is present.
C3_TotalIsSumOfPresent ==
    /\ getTotal(items) = BagTotal(present)
    /\ present = EmptyBag => getTotal(items) = 0

\* main's scenario: Apple 1.50, Banana 0.75 and Orange 1.25 were in the cart,
\* Banana was removed, and the total is 2.75 (11 quarters).
C3_Witness ==
    /\ cartCall.op = "removeItem"
    /\ cartCall.args = <<"Banana">>
    /\ cartCall.before = 3
    /\ present = SetToBag({Item("Apple", 6), Item("Orange", 5)})
    /\ getTotal(items) = 11

\* C4: a chain cart.addItem(x).addItem(y)... leaves cart in the state the
\* same calls leave it in when each is made on cart in a statement of its
\* own, and changes no other object: the calls of the chain act on cart
\* itself, not on a temporary copy.
C4_ChainSameAsSeparateCalls ==
    [][cartCall'.op = "chain" =>
         /\ carts'["cart"] = separately(carts, "cart", cartCall'.args)["cart"]
         /\ carts'["temp"] = carts["temp"]]_vars

\* main's chain of three calls has run on the empty cart.
C4_Witness ==
    /\ cartCall.op = "chain"
    /\ cartCall.before = 0
    /\ items = <<Item("Apple", 6), Item("Banana", 3), Item("Orange", 5)>>

\* C5: removeItem(name) removes every entry whose name is exactly name, all
\* duplicates included, removes no entry with another name (one that differs
\* only in case included), and changes nothing when no entry matches.
C5_RemovesExactlyTheMatches ==
    [][cartCall'.op = "removeItem" =>
         LET n      == cartCall'.args[1]
             before == carts["cart"]
             after  == carts'["cart"]
         IN  /\ \A k \in 1..Len(after) : after[k].name # n
             /\ \A e \in Entries(before) \cup Entries(after) :
                  e.name # n => Count(after, e) = Count(before, e)
             /\ (\A k \in 1..Len(before) : before[k].name # n)
                  => after = before]_vars

\* removeItem("Banana") took two Banana entries out of three items and left
\* the entry named banana.
C5_Witness ==
    /\ cartCall.op = "removeItem"
    /\ cartCall.args = <<"Banana">>
    /\ cartCall.before = 3
    /\ items = <<Item("banana", 3)>>

\* C6: after removeItem the remaining entries are in the order they were in
\* before the call.
C6_RemovalKeepsOrder ==
    [][cartCall'.op = "removeItem" =>
         IsSubseq(carts'["cart"], carts["cart"])]_vars

\* A removal out of three items left Apple before Orange.
C6_Witness ==
    /\ cartCall.op = "removeItem"
    /\ cartCall.before = 3
    /\ Len(items) = 2
    /\ items[1].name = "Apple"
    /\ items[2].name = "Orange"

\* C10: addItem(name, price) validates nothing: whatever the name and the
\* price, a negative price or a name already present included, it appends
\* exactly the entry (name, price) at the end and leaves the earlier entries
\* as they were.
C10_AddItemAppendsOne ==
    [][cartCall'.op = "addItem" =>
         LET e      == cartCall'.args[1]
             before == carts["cart"]
             after  == carts'["cart"]
         IN  /\ Len(after) = Len(before) + 1
             /\ after[Len(after)] = e
             /\ SubSeq(after, 1, Len(before)) = before]_vars

\* addItem("Banana", -0.50) was called on a cart that already held a Banana.
C10_Witness ==
    /\ cartCall.op = "addItem"
    /\ cartCall.args = <<Item("Banana", -2)>>
    /\ Len(items) >= 2
    /\ items[1] = Item("Banana", 3)
    /\ items[Len(items)] = Item("Banana", -2)

IsAccess(c) == c.op \in {"get", "set"}

\* C1: the copy constructor of DynamicArray and of String yields an object
\* of the same size whose elements equal the source's one by one and leaves
\* the source as it was; and a later store through operator[] of one object,
\* at an index inside it, changes no element of any other object, so a store
\* into the duplicate never shows in the original.  (Checked under SpecCopy.)
C1_DuplicateIsIndependent ==
    [][/\ resCall'.op = "copy" =>
            LET d == objs'[resCall'.obj]
                r == objs[d.copyOf]
            IN  /\ d.size = r.size
                /\ Contents(heap', d) = Contents(heap, r)
                /\ Contents(heap', r) = Contents(heap, r)
       /\ resCall'.op = "set" =>
            \A j \in 1..Len(objs) :
                (j # resCall'.obj /\ objs[j].inScope)
                    => Contents(heap', objs[j]) = Contents(heap, objs[j])
      ]_vars

\* The scenario of main: an array holding 10 was copied, 99 was stored into
\* element 0 of the copy, and the original still holds 10 there.
C1_Witness ==
    /\ resCall.op = "set"
    /\ resCall.index = 0
    /\ resCall.value = 99
    /\ objs[resCall.obj].copyOf # 0
    /\ Contents(heap, objs[resCall.obj])[1] = 99
    /\ Contents(heap, objs[objs[resCall.obj].copyOf])[1] = 10

\* C2: every object of DynamicArray, String and FileHandler whose scope has
\* closed has had its block or its FILE given back exactly once, whatever
\* constructions, copies and scope exits came before.  (Checked under
\* SpecRes.)
C2_ReleasedExactlyOnce ==
    \A i \in 1..Len(objs) :
        (~objs[i].inScope /\ objs[i].data # 0) => heap[objs[i].data].frees = 1

\* C7: right after DynamicArray(n) the object has size n and each of its n
\* elements reads 0, whatever the fresh storage held.  (Checked under
\* SpecCopy.)
C7_NewArrayIsZeroed ==
    (resCall.op = "DynamicArray" /\ resCall.error = "none") =>
        LET o == objs[resCall.obj]
        IN  /\ o.size = resCall.value
            /\ Len(Contents(heap, o)) = o.size
            /\ \A k \in 1..o.size : Contents(heap, o)[k] = 0

\* DynamicArray(2) has just returned.
C7_Witness ==
    /\ resCall.op = "DynamicArray"
    /\ resCall.error = "none"
    /\ objs[resCall.obj].size = 2
    /\ Contents(heap, objs[resCall.obj]) = <<0, 0>>

\* C8: operator[] with an index at or past the size, on an object that
\* exists, fails with IndexOutOfRangeError and leaves all storage as it was.
\* (Checked under SpecMisuse.)
C8_AccessIsBoundsChecked ==
    [][(/\ IsAccess(resCall')
        /\ objs[resCall'.obj].destroyed = 0
        /\ resCall'.index >= objs[resCall'.obj].size)
         => /\ resCall'.error = "IndexOutOfRangeError"
            /\ heap' = heap]_vars

\* C9: once an object's storage has been released, operator[] on it and
\* copy construction from it fail with InvalidStateError, and releasing it
\* again neither fails nor gives the storage back a second time.  (Checked
\* under SpecMisuse.)
C9_UseAfterReleaseFails ==
    [][/\ (IsAccess(resCall') /\ objs[resCall'.obj].destroyed > 0)
            => resCall'.error = "InvalidStateError"
       /\ (resCall'.op = "copy" /\ objs[objs'[resCall'.obj].copyOf].destroyed > 0)
            => resCall'.error = "InvalidStateError"
       /\ (resCall'.op = "~" /\ objs[resCall'.obj].destroyed > 0)
            => /\ resCall'.error = "none"
               /\ heap' = heap
      ]_vars

(***************************************************************************)
(* Properties of the static counters (SpecCounter, SpecRace)               *)
(***************************************************************************)

\* The values held by the instances of class cls, in the order in which the
\* instances were constructed.
RECURSIVE valuesOf(_, _)
valuesOf(made, cls) ==
    IF made = <<>> THEN <<>>
    ELSE IF Head(made).class = cls
         THEN <<Head(made).value>> \o valuesOf(Tail(made), cls)
         ELSE valuesOf(Tail(made), cls)

ids == valuesOf(counters.made, "IDGenerator")

counts == valuesOf(counters.made, "GlobalCounter")

C14_IncrementIsAtomic ==
    /\ \A i, j \in 1..Len(ids) : i # j => ids[i] # ids[j]
    /\ \A i, j \in 1..Len(counts) : i # j => counts[i] # counts[j]
    /\ (\A t \in Threads : threads[t].pc = "idle") =>
         /\ counters.nextID = 1 + Len(ids)
         /\ counters.totalCount = 0 + Len(counts)

(***************************************************************************)
(* Properties of Calculator (SpecCalc)                                     *)
(***************************************************************************)

\* C16: a Calculator starts at 0; add, subtract and multiply return the
\* object they were called on, so that a chain leaves calc with the value
\* the same calls leave when each is made in a statement of its own, and
\* acts on no other object; add(10).add(5).subtract(3).multiply(2) gives 24.
C16_ChainActsOnReceiver ==
    /\ calc.n = 0 => getResult(calc.value, "calc") = 0
    /\ calc.recv = "calc"
    /\ getResult(calc.value, "calc") = getResult(calc.alone, "calc")
    /\ calc.value["temp"] = 0
    /\ (calc.main = Len(MainChain) /\ calc.n = Len(MainChain)) =>
         getResult(calc.value, "calc") = 24

\* main's chain of four calls has run.
C16_Witness ==
    /\ calc.main = 4
    /\ calc.last = [op |-> "multiply", num |-> 2, chained |-> TRUE]
    /\ getResult(calc.value, "calc") = 24

(***************************************************************************)
(* Properties of findMax (SpecFindMax)                                     *)
(***************************************************************************)

Max3(a, b, c) == CHOOSE m \in {a, b, c} : \A v \in {a, b, c} : m >= v

\* C17: findMax(x, y, z) returns a reference to one of x, y, z that holds
\* the greatest of the three values; an assignment through the reference
\* changes that variable and leaves the other two as they were declared.
C17_FindMaxRefersToMaximum ==
    fm.pc \in {"called", "assigned"} =>
        /\ fm.max \in Places
        /\ fm.declared[fm.max]
             = Max3(fm.declared["x"], fm.declared["y"], fm.declared["z"])
        /\ fm.pc = "called" => fm.st = fm.declared
        /\ fm.pc = "assigned" =>
             /\ fm.st[fm.max] = fm.assigned
             /\ \A o \in Places \ {fm.max} : fm.st[o] = fm.declared[o]

\* main: x = 10, y = 25, z = 15; max refers to y; after max = 100, y is
\* 100 and x and z are 10 and 15.
C17_Witness ==
    /\ fm.pc = "assigned"
    /\ fm.declared = [x |-> 10, y |-> 25, z |-> 15]
    /\ fm.max = "y"
    /\ fm.st = [x |-> 10, y |-> 100, z |-> 15]

(***************************************************************************)
(* Properties of Student (SpecStudent)                                     *)
(***************************************************************************)

\* C18: every grade stored is in 0..100, and getGradeCount() is the number
\* of addGrade calls made with a grade in 0..100: a call with a grade
\* outside the range stores nothing.
C18_GradesAreValidated ==
    /\ \A k \in 1..Len(student.grades) :
         student.grades[k] >= 0 /\ student.grades[k] <= 100
    /\ getGradeCount(student.grades) = student.inRange

\* main: after addGrade(85), (90), (78) and (150), three grades are stored.
C18_Witness ==
    /\ student.calls = 4
    /\ student.last = 150
    /\ student.grades = <<85, 90, 78>>
    /\ getGradeCount(student.grades) = 3

(***************************************************************************)
(* Properties of power and sumUpTo (SpecConstexpr)                         *)
(***************************************************************************)

\* base to the exp: the product of exp factors base (1 when exp is 0).
Expt(base, exp) ==
    IF exp = 0 THEN 1
    ELSE IF base = 0 THEN 0
    ELSE IF base > 0 THEN base ^ exp
    ELSE IF exp % 2 = 0 THEN (-base) ^ exp
    ELSE -((-base) ^ exp)

\* C19: power(base, exp) is base to the exp for exp >= 0, with
\* power(2, 10) = 1024 and power(2, 4) = 16; sumUpTo(n) is 1 + ... + n for
\* n >= 1, with sumUpTo(100) = 5050, and 0 for n <= 0.
C19_PowerAndSum ==
    /\ cx.fn = "power" =>
         /\ cx.value = Expt(cx.args[1], cx.args[2])
         /\ cx.args = <<2, 10>> => cx.value = 1024
         /\ cx.args = <<2, 4>> => cx.value = 16
    /\ cx.fn = "sumUpTo" =>
         /\ cx.args[1] >= 1 => cx.value = (cx.args[1] * (cx.args[1] + 1)) \div 2
         /\ cx.args[1] <= 0 => cx.value = 0
         /\ cx.args = <<100>> => cx.value = 5050

\* power(2, 10) was evaluated.
C19_Witness ==
    /\ cx.fn = "power"
    /\ cx.args = <<2, 10>>
    /\ cx.value = 1024

(***************************************************************************)
(* Properties of FileHandler's write and read (SpecFile)                   *)
(***************************************************************************)

\* C15: a write or a read on a FileHandler whose open failed (handle is
\* null) reports the failure to its caller.
C15_FailedOpenIsReported ==
    (/\ resCall.op \in {"write", "read"}
     /\ objs[resCall.obj].data = 0) => resCall.error # "none"

(***************************************************************************)
(* Exclusive ownership (SpecAssign)                                        *)
(***************************************************************************)

\* The objects in scope whose destructor has not run.
Live == { i \in 1..Len(objs) : objs[i].inScope /\ objs[i].destroyed = 0 }

\* C20: no two live objects hold the same non-null data pointer or handle.
C20_NoSharedStorage ==
    \A i, j \in Live :
        (i # j /\ objs[i].data # 0) => objs[i].data # objs[j].data

(***************************************************************************)
(* Properties of BankAccount (SpecAccount)                                 *)
(***************************************************************************)

\* C21: withdraw(amount) returns true and lowers the balance by exactly
\* amount when 0 < amount <= balance, and otherwise returns false and
\* leaves the balance as it was; deposit(amount) raises the balance by
\* amount when amount > 0 and otherwise leaves it as it was.
C21_WithdrawAndDepositAreGuarded ==
    LET c == account.last
    IN  /\ c.op = "withdraw" =>
             IF 0 < c.amount /\ c.amount <= c.before
             THEN c.ret /\ getBalance(account) = c.before - c.amount
             ELSE ~c.ret /\ getBalance(account) = c.before
        /\ c.op = "deposit" =>
             IF c.amount > 0
             THEN getBalance(account) = c.before + c.amount
             ELSE getBalance(account) = c.before

\* main: 1000.0, deposit(500.0), withdraw(200.0) gives 1300.0, and
\* withdraw(2000.0) is refused with the balance still 1300.0.
C21_Witness ==
    /\ account.initial = 10
    /\ account.n = 3
    /\ account.last = [op |-> "withdraw", amount |-> 20, before |-> 13,
                       ret |-> FALSE]
    /\ getBalance(account) = 13

\* C22: an account constructed with a non-negative initial balance never
\* has a negative balance, whatever amounts are deposited and withdrawn.
C22_BalanceNeverNegative ==
    (account.open /\ account.initial >= 0) => getBalance(account) >= 0

\* A negative amount was deposited on an empty account that started at 0.
C22_Witness ==
    /\ account.open
    /\ account.initial = 0
    /\ account.last.op = "deposit"
    /\ account.last.amount < 0
    /\ account.last.before = 0
    /\ getBalance(account) = 0

(***************************************************************************)
(* Properties of shared_ptr and weak_ptr (SpecShared)                      *)
(***************************************************************************)

\* The live shared_ptr owners of object i in state st: the variables of the
\* function that point to it and the next members of the Nodes not yet
\* destroyed.
Owners(st, i) ==
    Cardinality({ k \in 1..Len(st.locals) :
                    st.locals[k].kind = "shared" /\ st.locals[k].target = i })
    + Cardinality({ a \in 1..Len(st.objects) :
                    st.objects[a].destroyed = 0 /\ st.objects[a].next = i })

\* C23: the use count of every object is the number of its live shared_ptr
\* owners; a copy of a shared_ptr raises the count of its object by one,
\* the destruction of an owner lowers it by one, and an assignment to a
\* weak_ptr changes no count.
C23_UseCountIsOwners ==
    [][LET c == sp'.last
       IN  /\ \A i \in 1..Len(sp'.objects) :
                use_count(sp'.objects, i) = Owners(sp', i)
           /\ (c.op = "copy" /\ c.arg # 0) =>
                use_count(sp'.objects, c.arg) = use_count(sp.objects, c.arg) + 1
           /\ (c.op = "~" /\ c.arg # 0) =>
                use_count(sp'.objects, c.arg) = use_count(sp.objects, c.arg) - 1
           /\ c.op = "prev=" =>
                \A i \in 1..Len(sp.objects) :
                    use_count(sp'.objects, i) = use_count(sp.objects, i)]_vars

\* weakPtrExample after the two assignments: node1's count is 1 and
\* node2's is 2.
C23_Witness ==
    /\ Len(sp.objects) = 2
    /\ sp.last = [op |-> "prev=", arg |-> 2, ret |-> 1]
    /\ sp.objects[1].next = 2
    /\ sp.objects[2].prev = 1
    /\ Len(sp.locals) = 2
    /\ use_count(sp.objects, 1) = 1
    /\ use_count(sp.objects, 2) = 2

\* C24: with next a strong reference to a later node and prev a weak
\* reference to an earlier one, no object is destroyed twice, every object
\* has been destroyed exactly once when the last variable of the function
\* is gone, and prev.lock() yields the node prev refers to while that node
\* is alive.
C24_NoLeakThroughBackReference ==
    /\ \A i \in 1..Len(sp.objects) : sp.objects[i].destroyed <= 1
    /\ sp.locals = <<>> =>
         \A i \in 1..Len(sp.objects) : sp.objects[i].destroyed = 1
    /\ (/\ sp.last.op = "lock"
        /\ sp.objects[sp.last.arg].prev # 0
        /\ sp.objects[sp.objects[sp.last.arg].prev].destroyed = 0) =>
         sp.last.ret = sp.objects[sp.last.arg].prev

\* weakPtrExample has returned: node1 and node2 were linked both ways and
\* each has been destroyed once.
C24_Witness ==
    /\ sp.strong /\ sp.weak
    /\ sp.locked = 1
    /\ sp.locals = <<>>
    /\ Len(sp.objects) = 2
    /\ \A i \in 1..2 :
         sp.objects[i].kind = "Node" /\ sp.objects[i].destroyed = 1

(***************************************************************************)
(* Properties of unique_ptr (SpecUnique)                                   *)
(***************************************************************************)

\* The number of pointers in state st that point to object i.
UniqueOwners(st, i) ==
    Cardinality({ c \in (1..Len(st.owners)) \X (1..MaxOwned + 1) :
                    /\ c[2] <= Len(st.owners[c[1]].ptrs)
                    /\ st.owners[c[1]].ptrs[c[2]] = i })

\* C25: an object made by make_unique has exactly one owner until it is
\* destroyed and none afterwards; after a move (into a variable or into a
\* lambda's capture) the source is nullptr and the destination points to
\* the object the source pointed to, whose value is unchanged; no object
\* is destroyed twice, and each has been destroyed exactly once when the
\* last variable is gone.
C25_ExactlyOneOwner ==
    [][LET c == up'.last
       IN  /\ \A i \in 1..Len(up'.objects) :
                /\ up'.objects[i].destroyed <= 1
                /\ UniqueOwners(up', i) = 1 - up'.objects[i].destroyed
           /\ up'.owners = <<>> =>
                \A i \in 1..Len(up'.objects) : up'.objects[i].destroyed = 1
           /\ c.op = "move" =>
                /\ up'.owners[c.from].ptrs = <<0>>
                /\ up'.owners[c.to].ptrs = up.owners[c.from].ptrs
                /\ up'.objects = up.objects]_vars

\* uniquePtrBasics has returned: the int 42 was moved from ptr to ptr2 and
\* has been destroyed once.
C25_Witness ==
    /\ up.owners = <<>>
    /\ up.moved
    /\ Len(up.objects) = 1
    /\ up.objects[1] = [data |-> 42, destroyed |-> 1]
    /\ up.last = [op |-> "~", from |-> 1, to |-> 0, ret |-> 0]

=============================================================================
